---------------------------- MODULE Spec2Model ----------------------------
(***************************************************************************)
(* A model of the term pipeline of CombinatorX (src/CombinatorX.py):       *)
(* the bracket-abstraction Compiler, the GraphMachine with the reduction   *)
(* drivers of CombinatorApp.process_command, and the TypeInferenceEngine.  *)
(***************************************************************************)
EXTENDS Integers, Sequences, FiniteSets, TLC

(***************************************************************************)
(* Terms (class Variable / Application / Abstraction).  A term is a tuple  *)
(* tagged in its first component; the parameter of an Abstraction is kept  *)
(* as a Variable tuple so that any two terms can be compared.              *)
(***************************************************************************)
Variable(name) == <<"V", name>>

Application(left, right) == <<"A", left, right>>

Abstraction(parameter, body) == <<"L", Variable(parameter), body>>

IsVariable(t) == t[1] = "V"

IsApplication(t) == t[1] = "A"

IsAbstraction(t) == t[1] = "L"

\* The value standing for a raised ValueError (Compiler.abstract_eta,
\* Compiler.abstract_turner, GraphMachine.compile).
Raised == <<"E", "ValueError">>

IsRaised(t) == t[1] = "E"

\* Application(l, r) where evaluating l or r may already have raised.
ApplicationOrRaise(l, r) ==
    IF IsRaised(l) \/ IsRaised(r) THEN Raised ELSE Application(l, r)

(***************************************************************************)
(* Compiler (bracket abstraction).                                         *)
(***************************************************************************)
RECURSIVE free_variables(_)
free_variables(term) ==
    IF IsVariable(term) THEN {term[2]}
    ELSE IF IsApplication(term)
         THEN free_variables(term[2]) \cup free_variables(term[3])
    ELSE IF IsAbstraction(term)
         THEN free_variables(term[3]) \ {term[2][2]}
    ELSE {}

RECURSIVE abstract_primitive(_, _)
abstract_primitive(x, term) ==
    IF IsRaised(term) THEN Raised
    ELSE IF IsApplication(term)
    THEN ApplicationOrRaise(
             ApplicationOrRaise(Variable("S"), abstract_primitive(x, term[2])),
             abstract_primitive(x, term[3]))
    ELSE IF IsVariable(term) /\ term[2] = x THEN Variable("I")
    ELSE Application(Variable("K"), term)

RECURSIVE abstract_eta(_, _)
abstract_eta(x, term) ==
    IF IsRaised(term) THEN Raised
    ELSE IF term = Variable(x) THEN Variable("I")
    ELSE IF x \notin free_variables(term)
    THEN Application(Variable("K"), term)
    ELSE IF IsApplication(term)
    THEN IF IsVariable(term[3]) /\ term[3][2] = x
            /\ x \notin free_variables(term[2])
         THEN term[2]
         ELSE ApplicationOrRaise(
                  ApplicationOrRaise(Variable("S"), abstract_eta(x, term[2])),
                  abstract_eta(x, term[3]))
    ELSE Raised

RECURSIVE abstract_turner(_, _)
abstract_turner(x, term) ==
    IF IsRaised(term) THEN Raised
    ELSE IF term = Variable(x) THEN Variable("I")
    ELSE IF x \notin free_variables(term)
    THEN Application(Variable("K"), term)
    ELSE IF IsApplication(term)
    THEN LET m == term[2]
             n == term[3]
         IN  IF n = Variable(x) /\ x \notin free_variables(m) THEN m
             ELSE LET m_abs == abstract_turner(x, m)
                      n_abs == abstract_turner(x, n)
                  IN  IF IsRaised(m_abs) \/ IsRaised(n_abs) THEN Raised
                      ELSE IF x \notin free_variables(m)
                      THEN Application(Application(Variable("B"), m), n_abs)
                      ELSE IF x \notin free_variables(n)
                      THEN Application(Application(Variable("C"), m_abs), n)
                      ELSE Application(Application(Variable("S"), m_abs), n_abs)
    ELSE Raised

ALGORITHMS == {"primitive", "eta", "turner"}

abstract(x, term, algorithm) ==
    IF algorithm = "primitive" THEN abstract_primitive(x, term)
    ELSE IF algorithm = "eta" THEN abstract_eta(x, term)
    ELSE abstract_turner(x, term)

\* A slip the compiler could make: abstracting over the body as written,
\* without compiling the inner abstractions first.
RECURSIVE Compiler_compile_NoInner(_, _)
Compiler_compile_NoInner(term, algorithm) ==
    IF IsAbstraction(term)
    THEN abstract(term[2][2], term[3], algorithm)
    ELSE IF IsApplication(term)
    THEN ApplicationOrRaise(Compiler_compile_NoInner(term[2], algorithm),
                            Compiler_compile_NoInner(term[3], algorithm))
    ELSE term

RECURSIVE Compiler_compile(_, _)
Compiler_compile(term, algorithm) ==
    IF IsAbstraction(term)
    THEN abstract(term[2][2], Compiler_compile(term[3], algorithm), algorithm)
    ELSE IF IsApplication(term)
    THEN ApplicationOrRaise(Compiler_compile(term[2], algorithm),
                            Compiler_compile(term[3], algorithm))
    ELSE term


(***************************************************************************)
(* GraphNode and GraphMachine.  The heap is the sequence of the GraphNode  *)
(* objects allocated so far; a node is referred to by its index, and 0     *)
(* stands for None.                                                        *)
(***************************************************************************)
TYPE_APPLICATION == 0

TYPE_COMBINATOR == 1

TYPE_INDIRECTION == 2

TYPE_VARIABLE == 3

None == 0

NoValue == ""

GraphNode(node_type, left, right, value) ==
    [type |-> node_type, left |-> left, right |-> right, value |-> value]

\* A slip GraphMachine.compile could make: an Abstraction taken for its
\* body instead of raising.
RECURSIVE GraphMachine_compile_AbstractionAsBody(_, _)
GraphMachine_compile_AbstractionAsBody(term, heap) ==
    IF IsApplication(term)
    THEN LET l == GraphMachine_compile_AbstractionAsBody(term[2], heap)
             r == GraphMachine_compile_AbstractionAsBody(term[3], l.heap)
         IN  [heap |-> Append(r.heap,
                          GraphNode(TYPE_APPLICATION, l.node, r.node, NoValue)),
              node |-> Len(r.heap) + 1,
              raised |-> FALSE]
    ELSE IF IsVariable(term)
    THEN [heap |-> Append(heap, GraphNode(TYPE_COMBINATOR, None, None, term[2])),
          node |-> Len(heap) + 1,
          raised |-> FALSE]
    ELSE GraphMachine_compile_AbstractionAsBody(term[3], heap)

\* GraphMachine.compile: the children are built before their parent, the
\* left one first.  The result is the new heap and the node built; an
\* Abstraction raises.
RECURSIVE GraphMachine_compile(_, _)
GraphMachine_compile(term, heap) ==
    IF IsApplication(term)
    THEN LET l == GraphMachine_compile(term[2], heap)
         IN  IF l.raised THEN l
             ELSE LET r == GraphMachine_compile(term[3], l.heap)
                  IN  IF r.raised THEN r
                      ELSE [heap |-> Append(r.heap,
                                       GraphNode(TYPE_APPLICATION, l.node, r.node, NoValue)),
                            node |-> Len(r.heap) + 1,
                            raised |-> FALSE]
    ELSE IF IsVariable(term)
    THEN [heap |-> Append(heap, GraphNode(TYPE_COMBINATOR, None, None, term[2])),
          node |-> Len(heap) + 1,
          raised |-> FALSE]
    ELSE [heap |-> heap, node |-> None, raised |-> TRUE]

\* `while node.type == TYPE_INDIRECTION: node = node.left`, the loop of
\* decompile and of reduce.  The loop is unrolled sixteen iterations to a
\* level of recursion (an iteration on a node that is no Indirection
\* leaves it), so that a long chain of Indirections is followed in few
\* levels.
Forward(heap, node) ==
    IF heap[node].type = TYPE_INDIRECTION THEN heap[node].left ELSE node

Forward4(heap, node) ==
    Forward(heap, Forward(heap, Forward(heap, Forward(heap, node))))

Forward16(heap, node) ==
    Forward4(heap, Forward4(heap, Forward4(heap, Forward4(heap, node))))

RECURSIVE skip_indirections(_, _)
skip_indirections(heap, node) ==
    IF heap[node].type # TYPE_INDIRECTION THEN node
    ELSE skip_indirections(heap, Forward16(heap, node))

RECURSIVE decompile(_, _)
decompile(heap, start) ==
    LET node == skip_indirections(heap, start)
    IN  IF heap[node].type = TYPE_APPLICATION
        THEN Application(decompile(heap, heap[node].left),
                         decompile(heap, heap[node].right))
        ELSE IF heap[node].type = TYPE_COMBINATOR THEN Variable(heap[node].value)
        ELSE Variable("?")

get_arity(name) ==
    CASE name \in {"I", "M", "Y"} -> 1
      [] name \in {"K", "W"} -> 2
      [] name \in {"S", "B", "C"} -> 3
      [] OTHER -> 0

\* The nodes perform_reduction allocates are appended to the heap in the
\* order the code constructs them.
perform_reduction_body(heap, name, root, args) ==
    LET new == Len(heap) + 1
        App(l, r) == GraphNode(TYPE_APPLICATION, l, r, NoValue)
        set(h, t, l) == [h EXCEPT ![root].type = t, ![root].left = l]
        setLR(h, l, r) ==
            [h EXCEPT ![root].type = TYPE_APPLICATION, ![root].left = l, ![root].right = r]
    IN  CASE name \in {"I", "K"} -> set(heap, TYPE_INDIRECTION, args[1])
          [] name = "S" ->
                setLR(heap \o <<App(args[1], args[3]), App(args[2], args[3])>>,
                      new, new + 1)
          [] name = "B" ->
                setLR(Append(heap, App(args[2], args[3])), args[1], new)
          [] name = "C" ->
                setLR(Append(heap, App(args[1], args[3])), new, args[2])
          [] name = "W" ->
                setLR(Append(heap, App(args[1], args[2])), new, args[2])
          [] OTHER -> heap

\* A slip the C rule could make: C x y z rewritten to x y z, the last two
\* arguments not exchanged.
perform_reduction_CNotExchanged(heap, name, root, args) ==
    IF name = "C"
    THEN [Append(heap, GraphNode(TYPE_APPLICATION, args[1], args[2], NoValue))
            EXCEPT ![root].type = TYPE_APPLICATION,
                   ![root].left = Len(heap) + 1,
                   ![root].right = args[3]]
    ELSE perform_reduction_body(heap, name, root, args)

\* A slip the K rule could make: K x y rewritten to y.
perform_reduction_KSecond(heap, name, root, args) ==
    IF name = "K"
    THEN [heap EXCEPT ![root].type = TYPE_INDIRECTION, ![root].left = args[2]]
    ELSE perform_reduction_body(heap, name, root, args)

\* A slip the W rule could make: the node marked as a Variable node.
perform_reduction_WMarksVariable(heap, name, root, args) ==
    IF name = "W"
    THEN [heap EXCEPT ![root].type = TYPE_VARIABLE]
    ELSE perform_reduction_body(heap, name, root, args)

\* A slip the W rule could make: the node itself as its right child.
perform_reduction_WRightIsRoot(heap, name, root, args) ==
    IF name = "W"
    THEN [Append(heap, GraphNode(TYPE_APPLICATION, args[1], args[2], NoValue))
            EXCEPT ![root].type = TYPE_APPLICATION,
                   ![root].left = Len(heap) + 1,
                   ![root].right = root]
    ELSE perform_reduction_body(heap, name, root, args)

\* A slip the W rule could make: a copy of the argument node in the second
\* position instead of the node itself.
perform_reduction_WCopies(heap, name, root, args) ==
    IF name = "W"
    THEN [heap \o <<GraphNode(TYPE_APPLICATION, args[1], args[2], NoValue),
                    heap[args[2]]>>
            EXCEPT ![root].type = TYPE_APPLICATION,
                   ![root].left = Len(heap) + 1,
                   ![root].right = Len(heap) + 2]
    ELSE perform_reduction_body(heap, name, root, args)

perform_reduction(heap, name, root, args) ==
    perform_reduction_body(heap, name, root, args)

\* The spine walk of GraphMachine.reduce: the Application nodes met from
\* the root down the left spine, Indirections skipped, and the head.
RECURSIVE walk_spine(_, _, _)
walk_spine(heap, start, spine) ==
    LET current == skip_indirections(heap, start)
    IN  IF heap[current].type = TYPE_APPLICATION
        THEN walk_spine(heap, heap[current].left, Append(spine, current))
        ELSE [spine |-> spine, head |-> current]

\* A slip the argument selection could make: the Application nodes nearest
\* the root instead of those nearest the head.
spine_args_NearestRoot(heap, spine, n) ==
    [i \in 1..n |-> heap[spine[n - i + 1]].right]

\* spine[-arguments_needed:][::-1] and spine[-arguments_needed].
spine_args(heap, spine, n) ==
    [i \in 1..n |-> heap[spine[Len(spine) - i + 1]].right]

spine_root_app(spine, n) == spine[Len(spine) - n + 1]

reduce(heap, root) ==
    LET w == walk_spine(heap, root, <<>>)
        head == heap[w.head]
    IN  IF head.type # TYPE_COMBINATOR THEN [ret |-> FALSE, heap |-> heap]
        ELSE LET arguments_needed == get_arity(head.value)
             IN  IF arguments_needed = 0 \/ Len(w.spine) < arguments_needed
                 THEN [ret |-> FALSE, heap |-> heap]
                 ELSE [ret |-> TRUE,
                       heap |-> perform_reduction(heap, head.value,
                                    spine_root_app(w.spine, arguments_needed),
                                    spine_args(heap, w.spine, arguments_needed))]


(***************************************************************************)
(* Printing terms (the __str__ methods).  A text is a string; the printed  *)
(* form is concatenated as the code's f-strings are.                       *)
(***************************************************************************)
RECURSIVE Term_str(_)
Term_str(t) ==
    IF IsVariable(t) THEN t[2]
    ELSE IF IsApplication(t)
    THEN LET l == Term_str(t[2])
             r == Term_str(t[3])
         IN  (IF IsAbstraction(t[2]) THEN "(" \o l \o ")" ELSE l)
             \o " "
             \o (IF IsApplication(t[3]) THEN "(" \o r \o ")" ELSE r)
    ELSE "(λ" \o t[2][2] \o ". " \o Term_str(t[3]) \o ")"

(***************************************************************************)
(* Parser.  The Term objects live in a store, the sequence of the objects  *)
(* allocated so far; an object is referred to by its index.  The registry  *)
(* (Parser.macros) maps a name to the object registered under it.          *)
(***************************************************************************)
\* re.sub(r'#.*', '', text) on a text of one line
RECURSIVE strip_comment(_)
strip_comment(text) ==
    IF text = "" \/ Head(text) = "#" THEN ""
    ELSE Head(text) \o strip_comment(Tail(text))

\* The characters tokenize surrounds with spaces.
Separators == {"(", ")", ".", "\\", "="}

\* The five replace calls followed by split: a separator is a token of its
\* own, white space ends a word, any other character extends the word.
RECURSIVE split_tokens(_, _, _)
split_tokens(text, word, tokens) ==
    LET flushed == IF word = "" THEN tokens ELSE Append(tokens, word)
    IN  IF text = "" THEN flushed
        ELSE IF Head(text) = " " THEN split_tokens(Tail(text), "", flushed)
        ELSE IF Head(text) \in Separators
        THEN split_tokens(Tail(text), "", Append(flushed, Head(text)))
        ELSE split_tokens(Tail(text), word \o Head(text), tokens)

tokenize(text) == split_tokens(strip_comment(text), "", <<>>)

TermObject(kind, name, left, right) ==
    [kind |-> kind, name |-> name, left |-> left, right |-> right]

\* What None reads as where a term is expected.
NoneTerm == <<"None">>

\* The term an object stands for.
RECURSIVE term_of(_, _)
term_of(store, id) ==
    IF id = None THEN NoneTerm
    ELSE IF store[id].kind = "V" THEN Variable(store[id].name)
    ELSE IF store[id].kind = "A"
    THEN Application(term_of(store, store[id].left), term_of(store, store[id].right))
    ELSE Abstraction(store[id].name, term_of(store, store[id].right))

\* The objects reachable from an object, itself included.
RECURSIVE objects_of(_, _)
objects_of(store, id) ==
    IF id = None THEN {}
    ELSE IF store[id].kind = "V" THEN {id}
    ELSE IF store[id].kind = "A"
    THEN {id} \cup objects_of(store, store[id].left) \cup objects_of(store, store[id].right)
    ELSE {id} \cup objects_of(store, store[id].right)

\* A slip the macro lookup could make: handing out the registered object.
deepcopy_Alias(store, id) == [store |-> store, node |-> id]

\* copy.deepcopy of a registered term.  Every registered term is a result
\* of parse and so a tree: no object is met twice during the copy.
RECURSIVE deepcopy_tree(_, _)
deepcopy_tree(store, id) ==
    IF id = None THEN [store |-> store, node |-> None]
    ELSE IF store[id].kind = "V"
    THEN [store |-> Append(store, store[id]), node |-> Len(store) + 1]
    ELSE IF store[id].kind = "A"
    THEN LET l == deepcopy_tree(store, store[id].left)
             r == deepcopy_tree(l.store, store[id].right)
         IN  [store |-> Append(r.store, TermObject("A", "", l.node, r.node)),
              node |-> Len(r.store) + 1]
    ELSE LET b == deepcopy_tree(store, store[id].right)
         IN  [store |-> Append(b.store, TermObject("L", store[id].name, None, b.node)),
              node |-> Len(b.store) + 1]

deepcopy(store, id) == deepcopy_tree(store, id)

NoParseError == ""

\* `while tokens and tokens[0] != '.': params.append(tokens.pop(0))`: the
\* number of tokens before the first '.', all of them when there is none.
ParamCount(tokens) ==
    IF \E i \in 1..Len(tokens) : tokens[i] = "."
    THEN (CHOOSE i \in 1..Len(tokens) :
             tokens[i] = "." /\ \A j \in 1..(i - 1) : tokens[j] # ".") - 1
    ELSE Len(tokens)

\* A slip the binder could make: the parameters wrapped first to last, the
\* last parameter outermost.
RECURSIVE wrap_params_LastOutermost(_, _, _)
wrap_params_LastOutermost(store, params, body) ==
    IF params = <<>> THEN [store |-> store, node |-> body]
    ELSE wrap_params_LastOutermost(
             Append(store, TermObject("L", Head(params), None, body)),
             Tail(params), Len(store) + 1)

\* `for p in reversed(params): term = Abstraction(p, term)`
RECURSIVE wrap_params(_, _, _)
wrap_params(store, params, body) ==
    IF params = <<>> THEN [store |-> store, node |-> body]
    ELSE wrap_params(Append(store, TermObject("L", params[Len(params)], None, body)),
                     SubSeq(params, 1, Len(params) - 1),
                     Len(store) + 1)

\* parse_term and parse_expression return the object built, the tokens
\* left, the store, and the message of the ValueError raised ("" for none).
RECURSIVE parse_term(_, _, _)
RECURSIVE parse_expression(_, _, _)
RECURSIVE parse_expression_loop(_, _)
parse_term(tokens, store, macros) ==
    IF tokens = <<>>
    THEN [node |-> None, tokens |-> tokens, store |-> store,
          error |-> "Unexpected end of input"]
    ELSE LET token == Head(tokens)
             rest == Tail(tokens)
         IN  IF token = "("
             THEN LET expr == parse_expression(rest, store, macros)
                  IN  IF expr.error # NoParseError THEN expr
                      ELSE IF expr.tokens = <<>>
                      THEN [expr EXCEPT !.error = "Missing closing parenthesis"]
                      ELSE IF Head(expr.tokens) # ")"
                      THEN [expr EXCEPT !.error = "Missing closing parenthesis",
                                        !.tokens = Tail(expr.tokens)]
                      ELSE [expr EXCEPT !.tokens = Tail(expr.tokens)]
             ELSE IF token = "\\" \/ token = "λ"
             THEN LET n == ParamCount(rest)
                      after == IF n < Len(rest) THEN SubSeq(rest, n + 2, Len(rest))
                               ELSE <<>>
                      body == parse_expression(after, store, macros)
                      term == wrap_params(body.store, SubSeq(rest, 1, n), body.node)
                  IN  IF body.error # NoParseError THEN body
                      ELSE [body EXCEPT !.store = term.store, !.node = term.node]
             ELSE IF token \in DOMAIN macros
             THEN LET copied == deepcopy(store, macros[token])
                  IN  [node |-> copied.node, tokens |-> rest, store |-> copied.store,
                       error |-> NoParseError]
             ELSE [node |-> Len(store) + 1, tokens |-> rest,
                   store |-> Append(store, TermObject("V", token, None, None)),
                   error |-> NoParseError]

\* The loop of parse_expression, `left` being the object built so far.
parse_expression_loop(left, macros) ==
    IF left.error # NoParseError \/ left.tokens = <<>>
       \/ Head(left.tokens) \in {")", "]", "}"} \/ Head(left.tokens) = "="
    THEN left
    ELSE LET right == parse_term(left.tokens, left.store, macros)
         IN  IF right.error # NoParseError THEN right
             ELSE parse_expression_loop(
                      [right EXCEPT
                          !.store = Append(right.store,
                                        TermObject("A", "", left.node, right.node)),
                          !.node = Len(right.store) + 1],
                      macros)

parse_expression(tokens, store, macros) ==
    parse_expression_loop(parse_term(tokens, store, macros), macros)

\* Parser.parse: None for a text without tokens.
parse(text, store, macros) ==
    IF tokenize(text) = <<>>
    THEN [node |-> None, tokens |-> <<>>, store |-> store, error |-> NoParseError]
    ELSE parse_expression(tokenize(text), store, macros)


(***************************************************************************)
(* State.                                                                  *)
(*  pc, cmd, term, heap, root, steps, iter, output: one run of             *)
(*      CombinatorApp.process_command on a `reduce` command or on a bare   *)
(*      expression (the default evaluation), one action per call of        *)
(*      GraphMachine.reduce;                                               *)
(*  prevHeap, lastRet, calls, rewrites: history of the reduce calls (the   *)
(*      heap before the last call, what it returned, how many calls were   *)
(*      made and how many of them changed a node);                         *)
(*  cpc, cterm, calg, cout: one call Compiler.compile(cterm, calg) and the *)
(*      term it returned;                                                  *)
(*  supply, substitution: the fields of the application's one              *)
(*      TypeInferenceEngine, kept from one `type` command to the next;     *)
(*  typed, inferred, ntype: the term of the last `type` command, what      *)
(*      infer_type made of it (with the constructor pairs it compared),    *)
(*      and the number of `type` commands so far;                          *)
(*  objects, macros, macro_db: the store of Term objects, Parser.macros    *)
(*      and CombinatorApp.macro_db;                                        *)
(*  ppc, ptext, parsed, printed, poutput, registry_before, db_before,     *)
(*  ndef, lastdef: the last call of Parser.parse (its text, its result,    *)
(*      the term whose printed form the text is) and the `def` commands    *)
(*      (their number, the arguments of the last one, the output label it  *)
(*      set), with the registered terms and macro_db as they were before   *)
(*      the last call or command;                                          *)
(*  gpc, gterm, gresult: one call GraphMachine.compile(gterm) and what it  *)
(*      returned.                                                          *)
(***************************************************************************)
VARIABLES pc, cmd, term, heap, root, steps, iter, output,
          prevHeap, lastRet, calls, rewrites,
          cpc, cterm, calg, cout,
          supply, substitution, typed, inferred, ntype,
          objects, macros, macro_db, ppc, ptext, parsed, printed, poutput,
          registry_before, db_before, ndef, lastdef,
          gpc, gterm, gresult

graphVars == <<pc, cmd, term, heap, root, steps, iter, output,
               prevHeap, lastRet, calls, rewrites>>

compileVars == <<cpc, cterm, calg, cout>>

typeVars == <<supply, substitution, typed, inferred, ntype>>

parseVars == <<objects, macros, macro_db, ppc, ptext, parsed, printed, poutput,
               registry_before, db_before, ndef, lastdef>>

graphCompileVars == <<gpc, gterm, gresult>>

otherVars == <<parseVars, graphCompileVars>>

vars == <<graphVars, compileVars, typeVars, otherVars>>

\* `while self.graph_machine.reduce(graph) and steps < 1000`
ReduceLimit == 1000

\* `for _ in range(5000)`
EvalLimit == 5000

(***************************************************************************)
(* The commands the model draws.                                           *)
(***************************************************************************)
\* The longest spine of an input term.
MaxArgs == 4

a == Variable("a")

I == Variable("I")

SII == Application(Application(Variable("S"), I), I)

ArgTerms == {a, I, Application(I, a)}

Heads == {"I", "K", "S", "B", "C", "W", "T", "a"}

RECURSIVE SpineTerms(_, _)
SpineTerms(head, k) ==
    IF k = 0 THEN {Variable(head)}
    ELSE {Application(f, x) : f \in SpineTerms(head, k - 1), x \in ArgTerms}

\* Inputs outside the family above: the combinators whose arity has no
\* rule, the self-application of S I I, and terms with abstractions.
ExtraTerms ==
    { Variable("M"),
      Application(Variable("M"), a),
      Application(Application(Variable("M"), a), I),
      Application(SII, SII),
      Application(Application(Variable("W"), Variable("W")), Variable("W")),
      Application(a, Application(Variable("M"), a)),
      Application(Abstraction("x", Variable("x")), a),
      Application(Abstraction("x", Application(Variable("x"), Variable("x"))),
                  Application(I, a)),
      Abstraction("x", Abstraction("y", Variable("x"))) }

\* S K K applied to an argument.
SKK == Application(Application(Variable("S"), Variable("K")), Variable("K"))

IdentityArguments ==
    ArgTerms \cup { Application(Variable("K"), a),
                    Application(a, Application(I, a)),
                    Application(Application(Variable("K"), a), I),
                    SKK,
                    Application(SKK, a) }

IdentityTerms == {Application(SKK, x) : x \in IdentityArguments}

InputTerms ==
    UNION {SpineTerms(h, k) : h \in Heads, k \in 0..MaxArgs}
    \cup ExtraTerms \cup IdentityTerms

Commands == {"reduce", "eval"}

CommandInputs == Commands \X InputTerms

NoOutput == [tag |-> "", term |-> Variable("")]

GraphInit ==
    /\ pc = "idle"
    /\ cmd = ""
    /\ term = Variable("")
    /\ heap = <<>>
    /\ root = None
    /\ steps = 0
    /\ iter = 0
    /\ output = NoOutput
    /\ prevHeap = <<>>
    /\ lastRet = FALSE
    /\ calls = 0
    /\ rewrites = 0

\* process_command up to the first call of reduce: parse (the term is the
\* parser's result), Compiler.compile with its default algorithm,
\* GraphMachine.compile; a raise is caught and shown as "Error: ...".
Begin ==
    /\ pc = "idle"
    /\ \E ct \in CommandInputs :
         LET c == ct[1]
             t == ct[2]
             compiled == Compiler_compile(t, "turner")
             g == IF IsRaised(compiled)
                  THEN [heap |-> <<>>, node |-> None, raised |-> TRUE]
                  ELSE GraphMachine_compile(compiled, <<>>)
         IN  /\ cmd' = c
             /\ term' = t
             /\ heap' = g.heap
             /\ root' = g.node
             /\ prevHeap' = g.heap
             /\ IF g.raised
                THEN /\ pc' = "done"
                     /\ output' = [tag |-> "Error: ", term |-> Raised]
                ELSE /\ pc' = IF c = "reduce" THEN "while" ELSE "first"
                     /\ output' = output
    /\ UNCHANGED <<steps, iter, lastRet, calls, rewrites>>
    /\ UNCHANGED <<compileVars, typeVars, otherVars>>

\* One call of GraphMachine.reduce on the graph, with its bookkeeping.
CallReduce(r) ==
    /\ heap' = r.heap
    /\ prevHeap' = heap
    /\ lastRet' = r.ret
    /\ calls' = calls + 1
    /\ rewrites' = IF r.heap # heap THEN rewrites + 1 ELSE rewrites

\* reduce: `while self.graph_machine.reduce(graph) and steps < 1000: steps += 1`
WhileReduce ==
    /\ pc = "while"
    /\ LET r == reduce(heap, root)
       IN  /\ CallReduce(r)
           /\ IF r.ret /\ steps < ReduceLimit
              THEN steps' = steps + 1 /\ pc' = "while"
              ELSE steps' = steps /\ pc' = "decompile"
    /\ UNCHANGED <<cmd, term, root, iter, output>>
    /\ UNCHANGED <<compileVars, typeVars, otherVars>>

\* default evaluation: the call of reduce before the loop, its result unused
FirstReduce ==
    /\ pc = "first"
    /\ CallReduce(reduce(heap, root))
    /\ pc' = "for"
    /\ UNCHANGED <<cmd, term, root, steps, iter, output>>
    /\ UNCHANGED <<compileVars, typeVars, otherVars>>

\* default evaluation: `for _ in range(5000): if not reduce(graph): break`
ForReduce ==
    /\ pc = "for"
    /\ LET r == reduce(heap, root)
       IN  /\ CallReduce(r)
           /\ iter' = iter + 1
           /\ pc' = IF r.ret /\ iter + 1 < EvalLimit THEN "for" ELSE "decompile"
    /\ UNCHANGED <<cmd, term, root, steps, output>>
    /\ UNCHANGED <<compileVars, typeVars, otherVars>>

\* `res = self.graph_machine.decompile(graph)` and the output label
Finish ==
    /\ pc = "decompile"
    /\ output' = [tag |-> IF cmd = "reduce" THEN "Result: " ELSE "= ",
                  term |-> decompile(heap, root)]
    /\ pc' = "done"
    /\ UNCHANGED <<cmd, term, heap, root, steps, iter, prevHeap, lastRet, calls, rewrites>>
    /\ UNCHANGED <<compileVars, typeVars, otherVars>>


(***************************************************************************)
(* Reading terms: spines, redexes, and the rules as the specification      *)
(* states them.                                                            *)
(***************************************************************************)
\* The head of a term and its arguments in calling order.
RECURSIVE TermSpine(_)
TermSpine(t) ==
    IF IsApplication(t)
    THEN LET s == TermSpine(t[2])
         IN  [head |-> s.head, args |-> Append(s.args, t[3])]
    ELSE [head |-> t, args |-> <<>>]

\* f x1 ... xk
RECURSIVE ApplyAll(_, _)
ApplyAll(f, xs) ==
    IF xs = <<>> THEN f
    ELSE ApplyAll(Application(f, Head(xs)), Tail(xs))

\* A redex: a combinator applied to at least as many arguments as its arity.
IsRedex(t) ==
    LET s == TermSpine(t)
    IN  /\ IsVariable(s.head)
        /\ get_arity(s.head[2]) > 0
        /\ Len(s.args) >= get_arity(s.head[2])

RECURSIVE HasRedex(_)
HasRedex(t) ==
    \/ IsRedex(t)
    \/ IsApplication(t) /\ (HasRedex(t[2]) \/ HasRedex(t[3]))
    \/ IsAbstraction(t) /\ HasRedex(t[3])

RECURSIVE HasAbstraction(_)
HasAbstraction(t) ==
    \/ IsAbstraction(t)
    \/ IsApplication(t) /\ (HasAbstraction(t[2]) \/ HasAbstraction(t[3]))

\* The right-hand sides of the rules: I x -> x; K x y -> x;
\* S x y z -> x z (y z); B x y z -> x (y z); C x y z -> x z y;
\* W x y -> x y y; M x -> x x; T x y -> y x.
RuleArity(name) ==
    CASE name \in {"I", "M"} -> 1
      [] name \in {"K", "W", "T"} -> 2
      [] name \in {"S", "B", "C"} -> 3
      [] OTHER -> 0

RuleRHS(name, x) ==
    CASE name = "I" -> x[1]
      [] name = "K" -> x[1]
      [] name = "S" -> Application(Application(x[1], x[3]), Application(x[2], x[3]))
      [] name = "B" -> Application(x[1], Application(x[2], x[3]))
      [] name = "C" -> Application(Application(x[1], x[3]), x[2])
      [] name = "W" -> Application(Application(x[1], x[2]), x[2])
      [] name = "M" -> Application(x[1], x[1])
      [] name = "T" -> Application(x[2], x[1])

\* The rule's right-hand side on the first arity arguments, applied to the
\* surplus arguments in their order.
RuleResult(name, xs) ==
    LET n == RuleArity(name)
    IN  ApplyAll(RuleRHS(name, SubSeq(xs, 1, n)), SubSeq(xs, n + 1, Len(xs)))

(***************************************************************************)
(* The last call of GraphMachine.reduce, read off prevHeap and heap.       *)
(***************************************************************************)
Called == calls > 0

PreWalk == walk_spine(prevHeap, root, <<>>)

\* The name at the head of the root spine before the call ("" when the
\* head is no Combinator node).
PreHeadName ==
    IF prevHeap[PreWalk.head].type = TYPE_COMBINATOR
    THEN prevHeap[PreWalk.head].value
    ELSE ""

PreArgCount == Len(PreWalk.spine)

\* The argument nodes of the root spine before the call, in calling order.
PreArgNodes ==
    [i \in 1..PreArgCount |-> prevHeap[PreWalk.spine[PreArgCount - i + 1]].right]

\* The arguments as terms, read after the call.
PreArgsAfter == [i \in 1..PreArgCount |-> decompile(heap, PreArgNodes[i])]

HeadApplied(names) ==
    /\ Called
    /\ PreHeadName \in names
    /\ PreArgCount >= RuleArity(PreHeadName)

Diverged == pc = "done" /\ lastRet


(***************************************************************************)
(* The tree-substitution reducer of the specification (section 4.3): it    *)
(* rewrites immutable terms leftmost-outermost, a beta step on an applied  *)
(* Abstraction and otherwise the graph machine's own rule on the redex, a  *)
(* fresh graph per step so that nothing is shared between steps.           *)
(***************************************************************************)
\* body[x := v]; an inner binder of the same name shadows x.
RECURSIVE Substitute(_, _, _)
Substitute(body, x, v) ==
    IF IsVariable(body) THEN (IF body[2] = x THEN v ELSE body)
    ELSE IF IsApplication(body)
    THEN Application(Substitute(body[2], x, v), Substitute(body[3], x, v))
    ELSE IF IsAbstraction(body)
    THEN (IF body[2][2] = x THEN body
          ELSE Abstraction(body[2][2], Substitute(body[3], x, v)))
    ELSE body

\* The graph machine's rule applied to a term whose head is a combinator
\* with enough arguments.
RewriteRedex(t) ==
    LET g == GraphMachine_compile(t, <<>>)
    IN  decompile(reduce(g.heap, g.node).heap, g.node)

RECURSIVE reduceTreeStep(_)
reduceTreeStep(t) ==
    LET s == TermSpine(t)
        k == Len(s.args)
        stepping == {i \in 1..k : reduceTreeStep(s.args[i]).ok}
    IN  IF IsAbstraction(s.head) /\ k >= 1
        THEN [ok |-> TRUE,
              term |-> ApplyAll(Substitute(s.head[3], s.head[2][2], s.args[1]),
                                Tail(s.args))]
        ELSE IF IsRedex(t) /\ ~HasAbstraction(t)
        THEN [ok |-> TRUE, term |-> RewriteRedex(t)]
        ELSE IF stepping = {} THEN [ok |-> FALSE, term |-> t]
        ELSE LET i == CHOOSE j \in stepping : \A j2 \in stepping : j <= j2
             IN  [ok |-> TRUE,
                  term |-> ApplyAll(s.head,
                              [s.args EXCEPT ![i] = reduceTreeStep(s.args[i]).term])]

\* The step-limited driver.  A step that leaves the term as it was will do
\* so at every later step, so the run is cut there as Diverged.
RECURSIVE reduceTree(_, _)
reduceTree(t, limit) ==
    LET s == reduceTreeStep(t)
    IN  IF ~s.ok THEN [term |-> t, diverged |-> FALSE]
        ELSE IF limit = 0 \/ s.term = t THEN [term |-> t, diverged |-> TRUE]
        ELSE reduceTree(s.term, limit - 1)

(***************************************************************************)
(* Claims about the graph machine and its drivers.                         *)
(***************************************************************************)
\* C4: whenever the driver stops because reduce returned False, the
\* decompiled result is in full normal form: it has no redex anywhere.
C4_NormalFormWhenStopped ==
    (pc = "done" /\ ~lastRet /\ output.tag # "Error: ") => ~HasRedex(output.term)

\* C5: when the driver stops at its step limit while the last step still
\* reported a rewrite, the outcome shown is a distinguished Diverged one,
\* not the partially reduced term under the label of a result.
C5_DivergedIsDistinguished ==
    Diverged => output.tag \notin {"Result: ", "= "}

\* C6: the `reduce` command applies at most 1000 rewrite steps to the graph.
C6_AtMostLimitRewrites ==
    cmd = "reduce" => rewrites <= ReduceLimit

\* C7 (as stated): for a head I, K, S, B, C or W with at least arity
\* arguments, one reduce step returns True and makes decompile(root) the
\* rule's right-hand side on the arguments x1..xk as they read before the
\* step, applied to the surplus arguments in their order.
C7_RuleOnArgumentsAsBefore ==
    HeadApplied({"I", "K", "S", "B", "C", "W"}) =>
        /\ lastRet
        /\ decompile(heap, root) = RuleResult(PreHeadName,
              [i \in 1..PreArgCount |-> decompile(prevHeap, PreArgNodes[i])])

\* C7 (amended): the same, with every argument read off the graph after
\* the step: an argument that shares the rewritten node shows it rewritten.
C7_RuleOnArgumentsAsAfter ==
    HeadApplied({"I", "K", "S", "B", "C", "W"}) =>
        /\ lastRet
        /\ decompile(heap, root) = RuleResult(PreHeadName, PreArgsAfter)

\* C7 witness: a step on a head with a surplus argument that shares the
\* rewritten node, so that this argument reads differently after the step.
C7_Witness ==
    /\ HeadApplied({"I", "K", "S", "B", "C", "W"})
    /\ PreArgCount > RuleArity(PreHeadName)
    /\ [i \in 1..PreArgCount |-> decompile(prevHeap, PreArgNodes[i])] # PreArgsAfter
    /\ decompile(heap, root) = RuleResult(PreHeadName, PreArgsAfter)

\* C8: a reduce step on a head M with an argument x rewrites the redex to
\* x x, and on a head T with arguments x, y rewrites it to y x.
C8_MAndTRules ==
    HeadApplied({"M", "T"}) =>
        decompile(heap, root) = RuleResult(PreHeadName, PreArgsAfter)

\* C9: reduce returns True if and only if it changed a node of the graph.
C9_TrueIffRewrote ==
    Called => (lastRet <=> heap # prevHeap)

\* C10: on a compiled term, the graph reducer and the tree reducer with
\* the same rules yield the same final term whenever both finish within
\* the step budget.
C10_GraphAgreesWithTree ==
    (pc = "done" /\ ~lastRet /\ output.tag # "Error: ") =>
        LET tree == reduceTree(Compiler_compile(term, "turner"),
                               IF cmd = "reduce" THEN ReduceLimit ELSE EvalLimit)
        IN  ~tree.diverged => output.term = tree.term


(***************************************************************************)
(* Types and the TypeInferenceEngine.  TypeVariable(n) stands for the      *)
(* type variable named "t<n>".  The engine's state is the record           *)
(* [supply, substitution, error]; error is <<>> until a TypeError is       *)
(* raised, and every operation after a raise leaves the state as it is     *)
(* (the exception unwinds the calls).                                      *)
(***************************************************************************)
TypeVariable(n) == <<"TV", n>>

TypeConstructor(name, types) == <<"TC", name, types>>

IsTypeVariable(t) == t[1] = "TV"

IsTypeConstructor(t) == t[1] = "TC"

\* TypeVariable.__eq__
SameTypeVariable(t1, t2) == IsTypeVariable(t2) /\ t2[2] = t1[2]

NoError == <<>>

\* The place of a type where a raise left none.
NoType == <<"TC", "", <<>>>>

\* TypeVariable.__str__ and TypeConstructor.__str__
RECURSIVE type_str(_)
RECURSIVE type_str_join(_, _)
type_str(t) ==
    IF IsTypeVariable(t) THEN "t" \o ToString(t[2])
    ELSE IF t[3] = <<>> THEN t[2]
    ELSE IF t[2] = "->"
    THEN (IF IsTypeConstructor(t[3][1]) /\ t[3][1][2] = "->"
          THEN "(" \o type_str(t[3][1]) \o ")"
          ELSE type_str(t[3][1]))
         \o " -> " \o type_str(t[3][2])
    ELSE t[2] \o " " \o type_str_join(t[3], 1)

\* ' '.join(str(t) for t in self.types)
type_str_join(types, i) ==
    IF i = Len(types) THEN type_str(types[i])
    ELSE type_str(types[i]) \o " " \o type_str_join(types, i + 1)

\* A slip the mismatch report could make: the message without the types.
mismatch_message_WithoutTypes(t1, t2) == "Unification Failed: Types are incompatible"

\* f"Type Mismatch Error: Cannot unify {t1} with {t2}"
mismatch_message(t1, t2) ==
    "Type Mismatch Error: Cannot unify " \o type_str(t1) \o " with " \o type_str(t2)

\* The engine's fields, the TypeError raised (<<>> for none; the message,
\* followed for a mismatch by the two types in conflict), and the pairs of
\* type constructors unify_types has compared so far in the call.
Engine(n, sub, err) ==
    [supply |-> n, substitution |-> sub, error |-> err, compared |-> {},
     bound |-> <<>>]

supply_new_variable(e) ==
    [engine |-> [e EXCEPT !.supply = e.supply + 1], type |-> TypeVariable(e.supply + 1)]

\* What stands for a type where apply_substitution recursed without end
\* (Python raises RecursionError), and the failure the engine then holds.
RecursionRaised == <<"RecursionError">>

RecursionFailure == <<"maximum recursion depth exceeded">>

\* apply_substitution below the variables of `path`, each of them being
\* resolved higher up: meeting one of them again is a recursion without end.
RECURSIVE apply_substitution_under(_, _, _)
apply_substitution_under(sub, t, path) ==
    IF IsTypeVariable(t)
    THEN IF t[2] \in DOMAIN sub
         THEN IF t[2] \in path THEN RecursionRaised
              ELSE apply_substitution_under(sub, sub[t[2]], path \cup {t[2]})
         ELSE t
    ELSE IF IsTypeConstructor(t)
    THEN LET types == [i \in 1..Len(t[3]) |->
                          apply_substitution_under(sub, t[3][i], path)]
         IN  IF \E i \in 1..Len(types) : types[i] = RecursionRaised
             THEN RecursionRaised
             ELSE TypeConstructor(t[2], types)
    ELSE t

apply_substitution(sub, t) == apply_substitution_under(sub, t, {})

\* A slip unify_types could make: the new binding replacing the
\* substitution instead of joining it.
Bind_Forgetting(e, name, t) ==
    [e EXCEPT !.substitution = [n \in {name} |-> t],
              !.bound = Append(@, name)]

\* self.substitution[name] = t; `bound` keeps the names in the order of
\* their binding.
Bind(e, name, t) ==
    [e EXCEPT !.substitution =
                  [n \in DOMAIN e.substitution \cup {name} |->
                      IF n = name THEN t ELSE e.substitution[n]],
              !.bound = Append(@, name)]

RECURSIVE unify_types(_, _, _)
RECURSIVE unify_zip(_, _, _, _)
unify_types(e, type1, type2) ==
    IF e.error # NoError THEN e
    ELSE LET t1 == apply_substitution(e.substitution, type1)
             t2 == apply_substitution(e.substitution, type2)
         IN  IF t1 = RecursionRaised \/ t2 = RecursionRaised
             THEN [e EXCEPT !.error = RecursionFailure]
             ELSE IF IsTypeVariable(t1)
             THEN (IF ~SameTypeVariable(t1, t2) THEN Bind(e, t1[2], t2) ELSE e)
             ELSE IF IsTypeVariable(t2) THEN Bind(e, t2[2], t1)
             ELSE IF IsTypeConstructor(t1) /\ IsTypeConstructor(t2)
             THEN IF t1[2] # t2[2] \/ Len(t1[3]) # Len(t2[3])
                  THEN [e EXCEPT !.error = <<mismatch_message(t1, t2), t1, t2>>,
                                 !.compared = @ \cup {<<t1, t2>>}]
                  ELSE unify_zip([e EXCEPT !.compared = @ \cup {<<t1, t2>>}],
                                 t1[3], t2[3], 1)
             ELSE [e EXCEPT !.error = <<"Unification Failed: Types are incompatible">>]

\* `for a, b in zip(t1.types, t2.types): self.unify_types(a, b)`
unify_zip(e, types1, types2, i) ==
    IF i > Len(types1) \/ e.error # NoError THEN e
    ELSE unify_zip(unify_types(e, types1[i], types2[i]), types1, types2, i + 1)

\* instantiate: every type variable of t is replaced, consistently, by a
\* new one.  The result carries the mapping built so far.
RECURSIVE instantiate_rec(_, _, _)
RECURSIVE instantiate_list(_, _, _, _, _)
instantiate_rec(e, mapping, x) ==
    IF IsTypeVariable(x)
    THEN IF x[2] \in DOMAIN mapping
         THEN [engine |-> e, mapping |-> mapping, type |-> mapping[x[2]]]
         ELSE LET v == supply_new_variable(e)
              IN  [engine |-> v.engine,
                   mapping |-> [n \in DOMAIN mapping \cup {x[2]} |->
                                   IF n = x[2] THEN v.type ELSE mapping[n]],
                   type |-> v.type]
    ELSE IF IsTypeConstructor(x)
    THEN LET r == instantiate_list(e, mapping, x[3], 1, <<>>)
         IN  [engine |-> r.engine, mapping |-> r.mapping,
              type |-> TypeConstructor(x[2], r.types)]
    ELSE [engine |-> e, mapping |-> mapping, type |-> x]

instantiate_list(e, mapping, types, i, done) ==
    IF i > Len(types) THEN [engine |-> e, mapping |-> mapping, types |-> done]
    ELSE LET r == instantiate_rec(e, mapping, types[i])
         IN  instantiate_list(r.engine, r.mapping, types, i + 1, Append(done, r.type))

\* A slip instantiate could make: the type returned as it stands, its
\* variables shared by every use.
instantiate_Shared(e, t) == [engine |-> e, type |-> t]

instantiate(e, t) ==
    LET r == instantiate_rec(e, <<>>, t)
    IN  [engine |-> r.engine, type |-> r.type]

\* str.isdigit on the names the model draws
IsDigit(name) == name \in {"0", "1", "2", "3", "4", "5", "6", "7", "8", "9"}

RECURSIVE infer_type(_, _, _)
infer_type(e, expression, environment) ==
    IF e.error # NoError THEN [engine |-> e, type |-> NoType]
    ELSE IF IsVariable(expression)
    THEN IF expression[2] \in DOMAIN environment
         THEN instantiate(e, environment[expression[2]])
         ELSE IF IsDigit(expression[2])
         THEN [engine |-> e, type |-> TypeConstructor("Integer", <<>>)]
         ELSE IF expression[2] \in {"TRUE", "FALSE"}
         THEN [engine |-> e, type |-> TypeConstructor("Boolean", <<>>)]
         ELSE supply_new_variable(e)
    ELSE IF IsApplication(expression)
    THEN LET func == infer_type(e, expression[2], environment)
             arg == infer_type(func.engine, expression[3], environment)
         IN  IF arg.engine.error # NoError THEN arg
             ELSE LET result == supply_new_variable(arg.engine)
                      u == unify_types(result.engine, func.type,
                               TypeConstructor("->", <<arg.type, result.type>>))
                      resolved == apply_substitution(u.substitution, result.type)
                  IN  IF u.error # NoError THEN [engine |-> u, type |-> result.type]
                      ELSE IF resolved = RecursionRaised
                      THEN [engine |-> [u EXCEPT !.error = RecursionFailure],
                            type |-> NoType]
                      ELSE [engine |-> u, type |-> resolved]
    ELSE IF IsAbstraction(expression)
    THEN LET arg == supply_new_variable(e)
             parameter == expression[2][2]
             new_env == [n \in DOMAIN environment \cup {parameter} |->
                            IF n = parameter THEN arg.type ELSE environment[n]]
             body == infer_type(arg.engine, expression[3], new_env)
             resolved == apply_substitution(body.engine.substitution, arg.type)
         IN  IF body.engine.error # NoError THEN body
             ELSE IF resolved = RecursionRaised
             THEN [engine |-> [body.engine EXCEPT !.error = RecursionFailure],
                   type |-> NoType]
             ELSE [engine |-> body.engine,
                   type |-> TypeConstructor("->", <<resolved, body.type>>)]
    ELSE supply_new_variable(e)


(***************************************************************************)
(* Compiler.compile on its own, and the `type` command.                    *)
(***************************************************************************)
\* The largest term (in nodes) handed to Compiler.compile.
MaxTermSize == 5

\* The largest number of `type` commands in a run.
MaxTypeCommands == 2

\* All terms of n nodes with the given variable and parameter names.
RECURSIVE TermsOfSize(_, _, _)
TermsOfSize(n, names, params) ==
    IF n = 1 THEN {Variable(v) : v \in names}
    ELSE {Abstraction(q, b) : q \in params, b \in TermsOfSize(n - 1, names, params)}
         \cup UNION { {Application(l, r) : l \in TermsOfSize(i, names, params),
                                           r \in TermsOfSize(n - 1 - i, names, params)}
                      : i \in 1..(n - 2) }

CompileNames == {"x", "y", "K"}

\* Terms whose parameters bear the names of combinators the algorithms emit.
CaptureTerms ==
    { Abstraction("K", Abstraction("I", Abstraction("K", Abstraction("x", Variable("I"))))),
      Abstraction("B", Abstraction("x", Abstraction("x",
          Abstraction("B", Abstraction("B", Variable("x")))))),
      Abstraction("x", Abstraction("y", Application(Variable("y"), Variable("x")))) }

CompileTerms ==
    UNION {TermsOfSize(n, CompileNames, CompileNames) : n \in 1..MaxTermSize}
    \cup CaptureTerms

TypeInputs ==
    UNION {TermsOfSize(n, {"x", "1"}, {"x", "y"}) : n \in 1..3}
    \cup { Variable("TRUE"),
           Abstraction("x", Application(Variable("x"), Variable("x"))),
           Abstraction("f", Abstraction("x", Application(Variable("f"), Variable("x")))),
           Application(Abstraction("x", Variable("x")), Variable("TRUE")) }

CompileInit ==
    /\ cpc = "idle"
    /\ cterm = Variable("")
    /\ calg = ""
    /\ cout = Variable("")

TypeInit ==
    /\ supply = 0
    /\ substitution = <<>>
    /\ typed = Variable("")
    /\ inferred = [type |-> NoType, error |-> NoError, compared |-> {},
                   before |-> <<>>, bound |-> <<>>]
    /\ ntype = 0

\* Compiler.compile(term, algorithm)
CompileCall ==
    /\ cpc = "idle"
    /\ \E t \in CompileTerms, algorithm \in ALGORITHMS :
          /\ cterm' = t
          /\ calg' = algorithm
          /\ cout' = Compiler_compile(t, algorithm)
    /\ cpc' = "done"
    /\ UNCHANGED <<graphVars, typeVars, otherVars>>

\* process_command, `type`: infer_type on the application's engine with an
\* empty environment; the engine keeps what the call did to it, also when
\* the call raised.
TypeCommand ==
    /\ ntype < MaxTypeCommands
    /\ \E t \in TypeInputs :
          LET r == infer_type(Engine(supply, substitution, NoError), t, <<>>)
          IN  /\ typed' = t
              /\ supply' = r.engine.supply
              /\ substitution' = r.engine.substitution
              /\ inferred' = [type |-> IF r.engine.error = NoError THEN r.type ELSE NoType,
                              error |-> r.engine.error,
                              compared |-> r.engine.compared,
                              before |-> substitution,
                              bound |-> r.engine.bound]
    /\ ntype' = ntype + 1
    /\ UNCHANGED <<graphVars, compileVars, otherVars>>

(***************************************************************************)
(* The parser at work: the standard library loaded at construction, the    *)
(* `def` command, and calls of Parser.parse.                               *)
(***************************************************************************)
\* The number of entries of StandardLibrary.DEFINITIONS the model loads.
StdLibSize == 3

\* The longest text handed to parse, in tokens, and the largest term printed.
MaxTokens == 3

MaxPrintedSize == 4

\* The largest number of `def` commands in a run.
MaxDefinitions == 1

\* StandardLibrary.DEFINITIONS, its first entries in the dictionary's order.
DEFINITIONS ==
    << <<"TRUE", "(\\x y. x)">>,
       <<"FALSE", "(\\x y. y)">>,
       <<"NOT", "(\\p. p FALSE TRUE)">>,
       <<"AND", "(\\p q. p q FALSE)">>,
       <<"OR", "(\\p q. p TRUE q)">> >>

\* A slip the assignment could make: the value put under every key.
SetEntry_EveryKey(d, key, value) ==
    [n \in DOMAIN d \cup {key} |-> value]

\* d[key] = value on a dictionary
SetEntry(d, key, value) ==
    [n \in DOMAIN d \cup {key} |-> IF n = key THEN value ELSE d[n]]

\* CombinatorApp._load_std_lib from its entry i on; app holds the store,
\* Parser.macros and macro_db.
RECURSIVE load_std_lib(_, _)
load_std_lib(i, app) ==
    IF i > StdLibSize THEN app
    ELSE LET name == DEFINITIONS[i][1]
             p == parse(DEFINITIONS[i][2], app.objects, app.macros)
             compiled == Compiler_compile(term_of(p.store, p.node), "turner")
         IN  load_std_lib(i + 1,
                 [objects |-> p.store,
                  macros |-> SetEntry(app.macros, name, p.node),
                  macro_db |-> SetEntry(app.macro_db, name, compiled)])

\* The registered terms, read off the store.
RegistryTerms(store, registry) ==
    [n \in DOMAIN registry |-> term_of(store, registry[n])]

\* `'=' in args`, and args.split('=', 1) with name.strip()
RECURSIVE HasEquals(_)
HasEquals(text) ==
    text # "" /\ (Head(text) = "=" \/ HasEquals(Tail(text)))

RECURSIVE before_equals(_)
before_equals(text) ==
    IF text = "" \/ Head(text) = "=" THEN ""
    ELSE Head(text) \o before_equals(Tail(text))

RECURSIVE after_equals(_)
after_equals(text) ==
    IF text = "" THEN ""
    ELSE IF Head(text) = "=" THEN Tail(text)
    ELSE after_equals(Tail(text))

RECURSIVE lstrip(_)
lstrip(text) ==
    IF text # "" /\ Head(text) = " " THEN lstrip(Tail(text)) ELSE text

RECURSIVE rstrip(_)
rstrip(text) ==
    IF text # "" /\ SubSeq(text, Len(text), Len(text)) = " "
    THEN rstrip(SubSeq(text, 1, Len(text) - 1))
    ELSE text

strip(text) == rstrip(lstrip(text))

ParseAlphabet == {"a", "(", ")", "\\", ".", "=", "TRUE"}

RECURSIVE TextsOfLength(_)
TextsOfLength(n) ==
    IF n = 1 THEN ParseAlphabet
    ELSE {t \o " " \o c : t \in TextsOfLength(n - 1), c \in ParseAlphabet}

ParseTexts ==
    UNION {TextsOfLength(n) : n \in 1..MaxTokens}
    \cup {"", "a)b", "a ] b", "x # c", "λx. x", "K2", "K2 a b", "ID", "ID a",
          "NOT TRUE", "\\x y. x y", "\\ ( . a",
          "a b c d", "(\\x. x y) z", "a (\\x y. y x a) b c", "\\x. a \\y. x y",
          "\\TRUE. TRUE", "\\x TRUE. x TRUE a"}

\* The arguments of the `def` commands.
DefInputs == {"K2 x y = x", "ID = \\x. x", "a b", "X = ("}

\* The terms printed and parsed back: plain names, none of them registered.
PrintTerms == UNION {TermsOfSize(n, {"a", "b"}, {"x"}) : n \in 1..MaxPrintedSize}

NoDefinition == "-"

ParseInit ==
    LET app == load_std_lib(1, [objects |-> <<>>, macros |-> <<>>, macro_db |-> <<>>])
    IN  /\ objects = app.objects
        /\ macros = app.macros
        /\ macro_db = app.macro_db
        /\ ppc = "ready"
        /\ ptext = ""
        /\ parsed = [node |-> None, error |-> NoParseError, tokens |-> <<>>]
        /\ printed = Variable("")
        /\ poutput = ""
        /\ registry_before = RegistryTerms(app.objects, app.macros)
        /\ db_before = app.macro_db
        /\ ndef = 0
        /\ lastdef = NoDefinition

\* process_command, `def`: args is the command line after "def ".
Define(args) ==
    /\ lastdef' = args
    /\ registry_before' = RegistryTerms(objects, macros)
    /\ db_before' = macro_db
    /\ IF ~HasEquals(args)
       THEN /\ poutput' = "Syntax: def NAME = BODY"
            /\ UNCHANGED <<objects, macros, macro_db>>
       ELSE LET name == strip(before_equals(args))
                p == parse(after_equals(args), objects, macros)
                compiled == Compiler_compile(term_of(p.store, p.node), "turner")
            IN  /\ objects' = p.store
                /\ IF p.error # NoParseError
                   THEN /\ poutput' = "Error: " \o p.error
                        /\ UNCHANGED <<macros, macro_db>>
                   ELSE /\ macros' = SetEntry(macros, name, p.node)
                        /\ IF IsRaised(compiled)
                           THEN /\ poutput' = "Error: "
                                /\ UNCHANGED macro_db
                           ELSE /\ poutput' = "Defined " \o name
                                /\ macro_db' = SetEntry(macro_db, name, compiled)
    /\ ndef' = ndef + 1
    /\ UNCHANGED <<ppc, ptext, parsed, printed>>
    /\ UNCHANGED <<graphVars, compileVars, typeVars, graphCompileVars>>

\* One `def` command before the text parsed.
DefCommand ==
    /\ ppc = "ready"
    /\ ndef < MaxDefinitions
    /\ \E args \in DefInputs : Define(args)

\* The longest sequence of `def` commands on a few names.
MaxDefinitionSequence == 3

\* One `def` command of a sequence: commands that register, refer to and
\* redefine names, one of them referring to itself, and commands with an
\* empty body.
DefSequenceCommand ==
    /\ ppc = "ready"
    /\ ndef < MaxDefinitionSequence
    /\ \E args \in {"A = a", "B = A", "A = b", "X = X", "C = B A",
                     "Z =", "Z = # c"} :
          Define(args)

\* One call parser.parse(text)
CallParse(text) ==
    LET p == parse(text, objects, macros)
    IN  /\ ptext' = text
        /\ parsed' = [node |-> IF p.error = NoParseError THEN p.node ELSE None,
                       error |-> p.error, tokens |-> p.tokens]
        /\ objects' = p.store
        /\ registry_before' = RegistryTerms(objects, macros)
        /\ ppc' = "parsed"
        /\ UNCHANGED <<macros, macro_db, poutput, ndef, lastdef, db_before>>
        /\ UNCHANGED <<graphVars, compileVars, typeVars, graphCompileVars>>

\* parse of a text typed in
ParseText ==
    /\ ppc = "ready"
    /\ \E text \in ParseTexts : CallParse(text)
    /\ printed' = printed

\* parse of a text after a sequence of `def` commands
ParseAfterDefinitions ==
    /\ ppc = "ready"
    /\ \E text \in {"A", "B", "X", "Z", "C", "B X", "Z a"} : CallParse(text)
    /\ printed' = printed

\* parse of the printed form of a term
ParsePrinted ==
    /\ ppc = "ready"
    /\ \E t \in PrintTerms : CallParse(Term_str(t)) /\ printed' = t

(***************************************************************************)
(* GraphMachine.compile on its own.                                        *)
(***************************************************************************)
NoGraph == [heap |-> <<>>, node |-> None, raised |-> FALSE]

GraphCompileInit ==
    /\ gpc = "idle"
    /\ gterm = Variable("")
    /\ gresult = NoGraph

\* GraphMachine.compile(term) on a machine without nodes
GraphCompileCall ==
    /\ gpc = "idle"
    /\ \E t \in CompileTerms :
          /\ gterm' = t
          /\ gresult' = GraphMachine_compile(t, <<>>)
    /\ gpc' = "done"
    /\ UNCHANGED <<graphVars, compileVars, typeVars, parseVars>>

(***************************************************************************)
(* Specifications.                                                         *)
(***************************************************************************)
Init == GraphInit /\ CompileInit /\ TypeInit /\ ParseInit /\ GraphCompileInit

\* The reduction commands.
Next == Begin \/ WhileReduce \/ FirstReduce \/ ForReduce \/ Finish

Spec == Init /\ [][Next]_vars

\* Compiler.compile.
NextCompile == CompileCall

SpecCompile == Init /\ [][NextCompile]_vars

\* The `type` commands.
NextType == TypeCommand

SpecType == Init /\ [][NextType]_vars

\* The parser and the `def` command.
NextParse == DefCommand \/ ParseText \/ ParsePrinted

SpecParse == Init /\ [][NextParse]_vars

\* Sequences of `def` commands, then a parse.
NextDef == DefSequenceCommand \/ ParseAfterDefinitions

SpecDef == Init /\ [][NextDef]_vars

\* GraphMachine.compile.
NextGraphCompile == GraphCompileCall

SpecGraphCompile == Init /\ [][NextGraphCompile]_vars

(***************************************************************************)
(* Claims about the compiler and about type inference.                     *)
(***************************************************************************)
\* The budget of the tree reducer in the comparison below.
TreeFuel == 60

\* The number of leading parameters of a term.
RECURSIVE LeadingParameters(_)
LeadingParameters(t) ==
    IF IsAbstraction(t) THEN 1 + LeadingParameters(t[3]) ELSE 0

FreshArguments(t) == [i \in 1..LeadingParameters(t) |-> Variable("a" \o ToString(i))]

\* C1: for a closed term M, compile(M, algorithm) applied to fresh
\* variables a1..an reduces under the combinator rules to the normal form
\* that M applied to a1..an has under beta reduction (compared where that
\* normal form is free of abstractions).
C1_CompilePreservesMeaning ==
    (cpc = "done" /\ free_variables(cterm) = {} /\ ~IsRaised(cout)) =>
        LET lambda == reduceTree(ApplyAll(cterm, FreshArguments(cterm)), TreeFuel)
            compiled == reduceTree(ApplyAll(cout, FreshArguments(cterm)), TreeFuel)
        IN  (~lambda.diverged /\ ~compiled.diverged /\ ~HasAbstraction(lambda.term))
                => compiled.term = lambda.term

\* C2: Compiler.compile never raises the abstraction error, and the term
\* it returns contains no Abstraction at any depth.
C2_CompileTotalAndAbstractionFree ==
    cpc = "done" => ~IsRaised(cout) /\ ~HasAbstraction(cout)

\* C2 witness: an abstraction nested in the body of another, under an
\* application, has been compiled by the eta algorithm.
C2_Witness ==
    /\ cpc = "done"
    /\ calg = "eta"
    /\ IsAbstraction(cterm)
    /\ IsApplication(cterm[3])
    /\ HasAbstraction(cterm[3])
    /\ ~IsRaised(cout)
    /\ ~HasAbstraction(cout)

\* C3: a lambda-bound variable has its parameter's own type in the body:
\* infer of \x. x is a -> a, and infer of \x y. x is a -> b -> a.
C3_BoundVariableHasParameterType ==
    /\ (ntype > 0 /\ typed = Abstraction("x", Variable("x"))) =>
          /\ inferred.error = NoError
          /\ inferred.type[2] = "->"
          /\ inferred.type[3][1] = inferred.type[3][2]
    /\ (ntype > 0 /\ typed = Abstraction("x", Abstraction("y", Variable("x")))) =>
          /\ inferred.error = NoError
          /\ inferred.type[2] = "->"
          /\ inferred.type[3][2][2] = "->"
          /\ inferred.type[3][2][3][2] = inferred.type[3][1]

(***************************************************************************)
(* Claims about the parser and the `def` command.                          *)
(***************************************************************************)
ParseReturned == ppc = "parsed" /\ parsed.error = NoParseError /\ parsed.node # None

\* The term the last call of parse returned.
ParsedTerm == term_of(objects, parsed.node)

\* C11: parsing the printed form str(t) of a term t with plain names, none
\* of them registered, yields a term structurally equal to t.
C11_PrintParseRoundTrip ==
    (ppc = "parsed" /\ printed # Variable("")) =>
        ParseReturned /\ ParsedTerm = printed

\* A definition line as the specification reads it: the name is the first
\* token left of '=', the parameters are the tokens after it.
DefName(args) == Head(tokenize(before_equals(args)))

\* \p1 ... pn. body
RECURSIVE WithParameters(_, _)
WithParameters(params, body) ==
    IF params = <<>> THEN body
    ELSE Abstraction(Head(params), WithParameters(Tail(params), body))

\* The term `def NAME P1 ... Pn = BODY` is to register under NAME.
DefTerm(args) ==
    LET body == parse(after_equals(args), objects, macros)
    IN  WithParameters(Tail(tokenize(before_equals(args))), term_of(body.store, body.node))

Defined == lastdef # NoDefinition /\ Len(poutput) >= 7 /\ SubSeq(poutput, 1, 7) = "Defined"

\* C12: after `def NAME P1 ... Pn = BODY` the registry holds under NAME
\* the term \P1 ... Pn. BODY, and a later token NAME is parsed to it.
C12_DefWithParameters ==
    Defined =>
        /\ DefName(lastdef) \in DOMAIN macros
        /\ term_of(objects, macros[DefName(lastdef)]) = DefTerm(lastdef)
        /\ (ppc = "parsed" /\ tokenize(ptext) = <<DefName(lastdef)>>) =>
               ParseReturned /\ ParsedTerm = DefTerm(lastdef)

\* The depth of open parentheses after the tokens, -1 once a closing
\* parenthesis has met no open one.
RECURSIVE paren_depth(_, _)
paren_depth(tokens, depth) ==
    IF tokens = <<>> THEN depth
    ELSE IF Head(tokens) = "(" THEN paren_depth(Tail(tokens), depth + 1)
    ELSE IF Head(tokens) = ")"
    THEN (IF depth = 0 THEN -1 ELSE paren_depth(Tail(tokens), depth - 1))
    ELSE paren_depth(Tail(tokens), depth)

\* C13: parse raises on every input whose parentheses are unmatched, and a
\* term it returns is built from all the tokens, none discarded.
C13_UnmatchedParenthesesFail ==
    (ppc = "parsed" /\ tokenize(ptext) # <<>>) =>
        /\ paren_depth(tokenize(ptext), 0) # 0 => parsed.error # NoParseError
        /\ parsed.error = NoParseError => parsed.tokens = <<>>

\* The tokens end after '(', after the '.' of a binder, or in a binder
\* without '.'.
EndsWhereTermRequired(tokens) ==
    LET n == Len(tokens)
    IN  \/ tokens[n] = "("
        \/ /\ tokens[n] = "."
           /\ \E i \in 1..(n - 1) :
                 tokens[i] \in {"\\", "λ"} /\ \A j \in (i + 1)..(n - 1) : tokens[j] # "."
        \/ \E i \in 1..n :
              tokens[i] \in {"\\", "λ"} /\ \A j \in (i + 1)..n : tokens[j] # "."

\* The number of '(' left open at the end, a ')' that closes nothing not
\* counted.
RECURSIVE open_left(_, _)
open_left(tokens, depth) ==
    IF tokens = <<>> THEN depth
    ELSE IF Head(tokens) = "(" THEN open_left(Tail(tokens), depth + 1)
    ELSE IF Head(tokens) = ")" /\ depth > 0 THEN open_left(Tail(tokens), depth - 1)
    ELSE open_left(Tail(tokens), depth)

\* C14: for non-empty tokens that end where a term is required, or that
\* leave an opening parenthesis without its closing one, parse raises and
\* returns no term.
C14_EndOfInputFails ==
    (ppc = "parsed" /\ tokenize(ptext) # <<>>
        /\ (EndsWhereTermRequired(tokenize(ptext)) \/ open_left(tokenize(ptext), 0) > 0)) =>
        parsed.error # NoParseError /\ parsed.node = None

\* The number of nodes of a term.
RECURSIVE nodeCount(_)
nodeCount(t) ==
    IF IsApplication(t) THEN 1 + nodeCount(t[2]) + nodeCount(t[3])
    ELSE IF IsAbstraction(t) THEN 1 + nodeCount(t[3])
    ELSE 1

\* C19: a term returned by parse shares no object with a registered term,
\* every occurrence of a macro name being a copy of its own (the term is a
\* tree of as many objects as it has nodes), and the registered terms are
\* as they were before the call.
C19_ParseCopiesMacros ==
    ParseReturned =>
        /\ objects_of(objects, parsed.node) \cap UNION {objects_of(objects, macros[n]) : n \in DOMAIN macros} = {}
        /\ Cardinality(objects_of(objects, parsed.node)) = nodeCount(ParsedTerm)
        /\ RegistryTerms(objects, macros) = registry_before

\* C19 witness: TRUE TRUE has been parsed into two copies of the term
\* registered under TRUE.
C19_Witness ==
    /\ ParseReturned
    /\ tokenize(ptext) = <<"TRUE", "TRUE">>
    /\ ParsedTerm = Application(term_of(objects, macros["TRUE"]),
                                term_of(objects, macros["TRUE"]))
    /\ Cardinality(objects_of(objects, parsed.node)) = 7
    /\ objects_of(objects, parsed.node) \cap UNION {objects_of(objects, macros[n]) : n \in DOMAIN macros} = {}

(***************************************************************************)
(* Claims about the failures of infer_type and about its engine.           *)
(***************************************************************************)
\* `part in text` on strings
Contains(text, part) ==
    \E i \in 1..(Len(text) - Len(part) + 1) :
        SubSeq(text, i, i + Len(part) - 1) = part

\* Two type constructors that do not unify.
Mismatch(pair) ==
    pair[1][2] # pair[2][2] \/ Len(pair[1][3]) # Len(pair[2][3])

\* C15: infer_type fails exactly when unify_types compares two type
\* constructors of different names or argument counts; the failure is the
\* TypeError whose message contains the printed form of both, never the
\* generic one without type names.
C15_FailureNamesBothTypes ==
    ntype > 0 =>
        /\ inferred.error # NoError <=> \E pair \in inferred.compared : Mismatch(pair)
        /\ inferred.error # NoError =>
              /\ Len(inferred.error) = 3
              /\ <<inferred.error[2], inferred.error[3]>> \in inferred.compared
              /\ Mismatch(<<inferred.error[2], inferred.error[3]>>)
              /\ Contains(inferred.error[1], type_str(inferred.error[2]))
              /\ Contains(inferred.error[1], type_str(inferred.error[3]))
              /\ inferred.error[1] # "Unification Failed: Types are incompatible"

\* C15 witness: `type 1 x` as the first command has failed on Integer
\* against t1 -> t2.
C15_Witness ==
    /\ ntype = 1
    /\ typed = Application(Variable("1"), Variable("x"))
    /\ inferred.error # NoError
    /\ inferred.error[1] = "Type Mismatch Error: Cannot unify Integer with t1 -> t2"

\* What infer_type returns for a term on an engine that has made no call.
FirstCall(t) == infer_type(Engine(0, <<>>, NoError), t, <<>>)

\* C20: infer on a term returns the same type, printed the same, after any
\* earlier calls on the engine as it returns as the first call.
C20_InferIndependentOfHistory ==
    ntype > 0 =>
        /\ inferred.error = NoError <=> FirstCall(typed).engine.error = NoError
        /\ inferred.error = NoError =>
              /\ inferred.type = FirstCall(typed).type
              /\ type_str(inferred.type) = type_str(FirstCall(typed).type)

(***************************************************************************)
(* Claims about GraphMachine.compile, the S K K identity and the sizes of  *)
(* the three algorithms' outputs.                                          *)
(***************************************************************************)
\* C16: GraphMachine.compile raises for every term that contains an
\* Abstraction and returns a graph for every other term, and decompile of
\* that graph is the term.
C16_GraphCompileRaisesOrRoundTrips ==
    gpc = "done" =>
        /\ HasAbstraction(gterm) => gresult.raised
        /\ ~HasAbstraction(gterm) =>
              /\ ~gresult.raised
              /\ decompile(gresult.heap, gresult.node) = gterm

\* C16 witness: compile has raised on an Abstraction met as the argument
\* of an Application, after the function part was built.
C16_Witness ==
    /\ gpc = "done"
    /\ IsApplication(gterm)
    /\ ~HasAbstraction(gterm[2])
    /\ IsAbstraction(gterm[3])
    /\ gresult.raised

\* The input term is S K K applied to an argument.
IdentityApplied == pc # "idle" /\ IsApplication(term) /\ term[2] = SKK

\* C17: on S K K X the first two reduce calls rewrite (S, then K) and leave
\* the root standing for X; when X is irreducible the run ends within 10
\* calls and shows X.
C17_SKKIsIdentity ==
    IdentityApplied =>
        /\ calls = 2 =>
              lastRet /\ rewrites = 2 /\ decompile(heap, root) = term[3]
        /\ (pc = "done" /\ ~HasRedex(term[3])) =>
              calls <= 10 /\ rewrites = 2 /\ output.term = term[3]

\* C17 witness: `reduce S K K (K a)` has ended with K a after two rewrites.
C17_Witness ==
    /\ IdentityApplied
    /\ pc = "done"
    /\ cmd = "reduce"
    /\ term[3] = Application(Variable("K"), a)
    /\ rewrites = 2
    /\ output.term = Application(Variable("K"), a)

\* C18: for a term with at least one abstraction, the turner output has at
\* most as many nodes as the eta output, and the eta output at most as
\* many as the primitive output.
C18_SizeOrdering ==
    (cpc = "done" /\ HasAbstraction(cterm)) =>
        /\ nodeCount(Compiler_compile(cterm, "turner"))
              <= nodeCount(Compiler_compile(cterm, "eta"))
        /\ nodeCount(Compiler_compile(cterm, "eta"))
              <= nodeCount(Compiler_compile(cterm, "primitive"))

(***************************************************************************)
(* Claims about the shape of the graph under reduction.                    *)
(***************************************************************************)
\* The largest heap on which the search for a cycle is run.
MaxAcyclicHeap == 40

\* C21: at every step boundary every node of the graph (the nodes
\* reachable from the root among them) is an Application with two
\* children, a Combinator with a name or an Indirection with a target, and
\* the term decompile yields has no Abstraction and no placeholder leaf.
C21_GraphStaysValid ==
    /\ \A n \in 1..Len(heap) :
          \/ /\ heap[n].type = TYPE_APPLICATION
             /\ heap[n].left \in 1..Len(heap)
             /\ heap[n].right \in 1..Len(heap)
          \/ /\ heap[n].type = TYPE_COMBINATOR
             /\ heap[n].value # NoValue
          \/ /\ heap[n].type = TYPE_INDIRECTION
             /\ heap[n].left \in 1..Len(heap)
    /\ root # None => root \in 1..Len(heap)
    /\ (pc = "done" /\ output.tag # "Error: ") =>
          ~HasAbstraction(output.term) /\ "?" \notin free_variables(output.term)

\* C21 witness: a run has ended on a graph that holds an Indirection and
\* an Application made by a rule.
C21_Witness ==
    /\ pc = "done"
    /\ output.tag # "Error: "
    /\ rewrites >= 3
    /\ \E n \in 1..Len(heap) : heap[n].type = TYPE_INDIRECTION
    /\ "?" \notin free_variables(output.term)

\* The nodes a node points at.
Successors(h, n) ==
    IF h[n].type = TYPE_APPLICATION THEN {h[n].left, h[n].right}
    ELSE IF h[n].type = TYPE_INDIRECTION THEN {h[n].left}
    ELSE {}

\* The elements from which every path along `next` ends: those whose
\* successors are all such elements already, added round by round.
RECURSIVE Peeled(_, _, _)
Peeled(nodes, next, done) ==
    LET more == {n \in nodes \ done : next[n] \subseteq done}
    IN  IF more = {} THEN done ELSE Peeled(nodes, next, done \cup more)

\* C22: after any number of reduce steps the graph is acyclic: no node is
\* reachable from itself through left, right or Indirection pointers.
C22_GraphStaysAcyclic ==
    Len(heap) <= MaxAcyclicHeap =>
        Peeled(1..Len(heap), [n \in 1..Len(heap) |-> Successors(heap, n)], {})
           = 1..Len(heap)

\* C22 witness: an acyclic graph after an S step and a later step, with a
\* node shared by two parents and an Indirection in it.
C22_Witness ==
    /\ Len(heap) <= MaxAcyclicHeap
    /\ rewrites >= 2
    /\ \E n \in 1..Len(heap) : heap[n].type = TYPE_INDIRECTION
    /\ \E p, q \in 1..Len(heap) :
          /\ p # q
          /\ heap[p].type = TYPE_APPLICATION
          /\ heap[q].type = TYPE_APPLICATION
          /\ heap[p].right = heap[q].right
    /\ Peeled(1..Len(heap), [n \in 1..Len(heap) |-> Successors(heap, n)], {})
          = 1..Len(heap)

(***************************************************************************)
(* The nodes a reduce call reads and writes.                               *)
(***************************************************************************)
\* The nodes present before the call that the call changed.
Changed == {n \in 1..Len(prevHeap) : heap[n] # prevHeap[n]}

ParentFields(h, t) ==
    {pf \in (1..Len(h)) \X {"left", "right"} :
        \/ /\ pf[2] = "left"
           /\ h[pf[1]].type \in {TYPE_APPLICATION, TYPE_INDIRECTION}
           /\ h[pf[1]].left = t
        \/ /\ pf[2] = "right"
           /\ h[pf[1]].type = TYPE_APPLICATION
           /\ h[pf[1]].right = t}

\* C24: an S or W step puts the one argument node it duplicates at both
\* positions, allocating no copy of it, and a step that overwrites a node
\* leaves every pointer at that node in place, so each parent reads the
\* rewritten node.
C24_SharingPreserved ==
    /\ (HeadApplied({"S"}) /\ lastRet) =>
          LET t == PreWalk.spine[PreArgCount - 2]
          IN  /\ heap[t].type = TYPE_APPLICATION
              /\ heap[heap[t].left].right = PreArgNodes[3]
              /\ heap[heap[t].right].right = PreArgNodes[3]
              /\ Len(heap) = Len(prevHeap) + 2
    /\ (HeadApplied({"W"}) /\ lastRet) =>
          LET t == PreWalk.spine[PreArgCount - 1]
          IN  /\ heap[t].type = TYPE_APPLICATION
              /\ heap[heap[t].left].right = PreArgNodes[2]
              /\ heap[t].right = PreArgNodes[2]
              /\ Len(heap) = Len(prevHeap) + 1
    /\ (Called /\ lastRet) =>
          \A t \in Changed :
              \A pf \in ParentFields(prevHeap, t) :
                  pf[1] # t => pf \in ParentFields(heap, t)

\* C24 witness: a step overwrote a node that two pointers lead to, one of
\* them the right child of the root as a W step left it, and decompile
\* shows the rewritten form at both positions of the root.
C24_Witness ==
    /\ Called
    /\ lastRet
    /\ \E t \in Changed :
          /\ Cardinality(ParentFields(prevHeap, t)) >= 2
          /\ <<skip_indirections(heap, root), "right">> \in ParentFields(heap, t)
          /\ decompile(heap, t) # decompile(prevHeap, t)
    /\ LET r == skip_indirections(heap, root)
       IN  /\ heap[r].type = TYPE_APPLICATION
           /\ decompile(heap, heap[r].left) = decompile(heap, heap[r].right)

(***************************************************************************)
(* The reading of applications and binders.                                *)
(***************************************************************************)
\* Tokens that are names: none of the separators, brackets and binder
\* markers.
AllNames(tokens) ==
    \A i \in 1..Len(tokens) : tokens[i] \notin Separators \cup {"]", "}", "λ"}

Occurs(tokens, c) == \E i \in 1..Len(tokens) : tokens[i] = c

FirstIndex(tokens, c) ==
    CHOOSE i \in 1..Len(tokens) :
        tokens[i] = c /\ \A j \in 1..(i - 1) : tokens[j] # c

\* The term the grammar gives to tokens of the forms
\*   name ... name
\*   name ... name \ p1 ... pn . BODY
\*   name ... name ( INNER ) name ... name
\* with BODY and INNER of these forms again: applications nested to the
\* left, a binder as nested Abstractions over all the tokens that follow
\* its '.'; NoneTerm for other tokens.
RECURSIVE Reading(_)
Reading(tokens) ==
    IF tokens = <<>> THEN NoneTerm
    ELSE IF Occurs(tokens, "(")
    THEN LET i == FirstIndex(tokens, "(")
             j == IF Occurs(tokens, ")")
                  THEN CHOOSE m \in 1..Len(tokens) :
                           /\ tokens[m] = ")"
                           /\ \A n \in (m + 1)..Len(tokens) : tokens[n] # ")"
                  ELSE 0
             before == SubSeq(tokens, 1, i - 1)
             after == SubSeq(tokens, j + 1, Len(tokens))
             inner == IF j > i THEN Reading(SubSeq(tokens, i + 1, j - 1))
                      ELSE NoneTerm
             items == [m \in 1..Len(before) |-> Variable(before[m])] \o <<inner>>
                         \o [m \in 1..Len(after) |-> Variable(after[m])]
         IN  IF inner = NoneTerm \/ ~AllNames(before) \/ ~AllNames(after)
             THEN NoneTerm
             ELSE ApplyAll(Head(items), Tail(items))
    ELSE IF Occurs(tokens, "\\")
    THEN LET i == FirstIndex(tokens, "\\")
             d == IF Occurs(SubSeq(tokens, i + 1, Len(tokens)), ".")
                  THEN i + FirstIndex(SubSeq(tokens, i + 1, Len(tokens)), ".")
                  ELSE 0
             before == SubSeq(tokens, 1, i - 1)
             params == SubSeq(tokens, i + 1, d - 1)
             body == IF d > i + 1 THEN Reading(SubSeq(tokens, d + 1, Len(tokens)))
                     ELSE NoneTerm
             items == [m \in 1..Len(before) |-> Variable(before[m])]
                         \o <<WithParameters(params, body)>>
         IN  IF body = NoneTerm \/ ~AllNames(before) \/ ~AllNames(params)
             THEN NoneTerm
             ELSE ApplyAll(Head(items), Tail(items))
    ELSE IF AllNames(tokens)
    THEN ApplyAll(Variable(Head(tokens)),
                  [m \in 1..(Len(tokens) - 1) |-> Variable(tokens[m + 1])])
    ELSE NoneTerm

\* C25: on tokens with no macro name, applications are read nested to the
\* left and a binder \p1 ... pn. BODY as Abstractions nested p1 outermost,
\* BODY reaching to the end of the enclosing parenthesis or of the input.
C25_LeftAssociativeAndNestedBinders ==
    (ppc = "parsed" /\ Reading(tokenize(ptext)) # NoneTerm
         /\ \A i \in 1..Len(tokenize(ptext)) :
               tokenize(ptext)[i] \notin DOMAIN macros) =>
        /\ parsed.error = NoParseError
        /\ parsed.node # None
        /\ ParsedTerm = Reading(tokenize(ptext))

\* C25 witness: a binder of two parameters inside parentheses, with an
\* application of three terms as its body and arguments after it, was
\* parsed.
C25_Witness ==
    /\ ParseReturned
    /\ ptext = "a (\\x y. y x a) b c"
    /\ ParsedTerm = Reading(tokenize(ptext))
    /\ ParsedTerm =
          ApplyAll(Variable("a"),
              <<Abstraction("x", Abstraction("y",
                    ApplyAll(Variable("y"), <<Variable("x"), Variable("a")>>))),
                Variable("b"), Variable("c")>>)

\* C28: inside \p. BODY every occurrence of p is read as Variable(p), a
\* macro of the same name notwithstanding: tokens whose only macro names
\* are parameters of a binder of the text read as they do with no macro.
C28_BinderShadowsMacro ==
    (ppc = "parsed" /\ Reading(tokenize(ptext)) # NoneTerm
         /\ \A i \in 1..Len(tokenize(ptext)) :
               tokenize(ptext)[i] \in DOMAIN macros =>
                   \E q \in 2..Len(tokenize(ptext)), b \in 1..Len(tokenize(ptext)) :
                       /\ b < q
                       /\ tokenize(ptext)[q] = tokenize(ptext)[i]
                       /\ tokenize(ptext)[b] = "\\"
                       /\ \A j \in (b + 1)..q : tokenize(ptext)[j] # ".") =>
        /\ parsed.error = NoParseError
        /\ parsed.node # None
        /\ ParsedTerm = Reading(tokenize(ptext))

(***************************************************************************)
(* Claims about the substitution of the type engine.                       *)
(***************************************************************************)
\* C26: the substitution only grows: every binding present before a call
\* of infer_type is present unchanged after it, and each binding made
\* during the call is for a variable that had none, neither before the
\* call nor from an earlier binding of the call.
C26_SubstitutionGrowsMonotonically ==
    ntype > 0 =>
        /\ \A n \in DOMAIN inferred.before :
              n \in DOMAIN substitution /\ substitution[n] = inferred.before[n]
        /\ \A i \in 1..Len(inferred.bound) :
              /\ inferred.bound[i] \notin DOMAIN inferred.before
              /\ \A j \in 1..(i - 1) : inferred.bound[j] # inferred.bound[i]
        /\ DOMAIN substitution =
              DOMAIN inferred.before
                  \cup {inferred.bound[i] : i \in 1..Len(inferred.bound)}

\* C26 witness: a call that made two bindings has ended on an engine that
\* held bindings before it.
C26_Witness ==
    /\ ntype = 2
    /\ inferred.before # <<>>
    /\ Len(inferred.bound) >= 2
    /\ \A n \in DOMAIN inferred.before : substitution[n] = inferred.before[n]

\* The names of the type variables of a type.
RECURSIVE TypeVariablesOf(_)
TypeVariablesOf(t) ==
    IF IsTypeVariable(t) THEN {t[2]}
    ELSE IF IsTypeConstructor(t)
    THEN UNION {TypeVariablesOf(t[3][i]) : i \in 1..Len(t[3])}
    ELSE {}

\* C27: after any sequence of infer_type calls no type variable of the
\* substitution is bound, directly or through other bindings, to a type
\* that contains it, and no call has failed on a resolution without end.
C27_SubstitutionHasNoCycle ==
    /\ Peeled(DOMAIN substitution,
             [n \in DOMAIN substitution |->
                 TypeVariablesOf(substitution[n]) \cap DOMAIN substitution], {})
          = DOMAIN substitution
    /\ inferred.error # RecursionFailure

\* C27 witness: \x. x x has been typed, with a binding made, on an engine
\* that held bindings already.
C27_Witness ==
    /\ ntype = 2
    /\ typed = Abstraction("x", Application(Variable("x"), Variable("x")))
    /\ inferred.error = NoError
    /\ inferred.before # <<>>
    /\ Len(inferred.bound) >= 1
    /\ Peeled(DOMAIN substitution,
             [n \in DOMAIN substitution |->
                 TypeVariablesOf(substitution[n]) \cap DOMAIN substitution], {})
          = DOMAIN substitution

(***************************************************************************)
(* Claims about the two registries under `def` commands.                   *)
(***************************************************************************)
\* C29: every value of Parser.macros and of macro_db is a term, never
\* None; the two registries hold the same names; a `def` with an empty or
\* comment-only body leaves both as they were or shows an error.
C29_RegistriesHoldTerms ==
    /\ \A n \in DOMAIN macros : macros[n] # None
    /\ \A n \in DOMAIN macro_db : macro_db[n] # NoneTerm
    /\ DOMAIN macros = DOMAIN macro_db
    /\ (lastdef # NoDefinition /\ HasEquals(lastdef)
           /\ tokenize(after_equals(lastdef)) = <<>>) =>
          \/ Len(poutput) >= 5 /\ SubSeq(poutput, 1, 5) = "Error"
          \/ /\ RegistryTerms(objects, macros) = registry_before
             /\ macro_db = db_before

\* C30: a `def` registers its body with every macro name in it replaced by
\* the term that name had when the `def` ran - a name with no term then,
\* the name being defined among them, stays a Variable - and changes the
\* term of no other name, so a later redefinition of a name leaves the
\* terms defined through it as they are; a registered name then parses to
\* its term, with no further expansion.
C30_ResolvedAtDefinition ==
    /\ (Defined /\ HasEquals(lastdef) /\ tokenize(after_equals(lastdef)) # <<>>) =>
          LET name == strip(before_equals(lastdef))
              body == tokenize(after_equals(lastdef))
              meant == [i \in 1..Len(body) |->
                           IF body[i] \in DOMAIN registry_before
                           THEN registry_before[body[i]]
                           ELSE Variable(body[i])]
          IN  /\ \A n \in DOMAIN registry_before \ {name} :
                    /\ n \in DOMAIN macros
                    /\ term_of(objects, macros[n]) = registry_before[n]
              /\ \A n \in DOMAIN db_before \ {name} :
                    n \in DOMAIN macro_db /\ macro_db[n] = db_before[n]
              /\ AllNames(body) =>
                    term_of(objects, macros[name]) = ApplyAll(Head(meant), Tail(meant))
    /\ (ppc = "parsed" /\ Len(tokenize(ptext)) = 1
            /\ tokenize(ptext)[1] \in DOMAIN macros) =>
          /\ parsed.error = NoParseError
          /\ ParsedTerm = term_of(objects, macros[tokenize(ptext)[1]])

\* C30 witness: after def A = a, def B = A, def A = b the token B has been
\* parsed to a, A standing for b.
C30_Witness ==
    /\ ppc = "parsed"
    /\ ndef = 3
    /\ lastdef = "A = b"
    /\ "B" \in DOMAIN macros
    /\ term_of(objects, macros["A"]) = Variable("b")
    /\ term_of(objects, macros["B"]) = Variable("a")
    /\ ptext = "B"
    /\ ParsedTerm = Variable("a")

=============================================================================
